---- MODULE Spec2Model ----
(***************************************************************************)
(* MongoAccountTreeItem (src/mongo/tree/MongoAccountTreeItem.ts): the tree *)
(* node of a MongoDB account.  loadMoreChildrenImpl lists the databases    *)
(* of the account, createChildImpl prompts for a database name that        *)
(* validateDatabaseName accepts.                                           *)
(*                                                                         *)
(* A JavaScript string is a sequence of one-character strings (names,      *)
(* connection strings) or of text fragments (messages); a value that may   *)
(* be undefined is a record [defined, chars].  An async function runs      *)
(* from one await to the next without interruption, so every action is     *)
(* one such run of one invocation.                                         *)
(***************************************************************************)
EXTENDS Integers, Sequences, FiniteSets, TLC

VARIABLES
    pc,               \* per invocation: "idle", "connecting", "listing", "done"
    account,          \* per invocation: the tree item (this) it is called on
    mongoClient,      \* per invocation: the local mongoClient, 0 = undefined
    outcome,          \* per invocation: what the returned promise settled with
    thrown,           \* per invocation: the error as first thrown in the try block
    received,         \* per invocation: what listDatabases resolved with
    connectAttempts,  \* per invocation: calls of connectToMongoClient
    listCalls,        \* per invocation: calls of listDatabases
    conns,            \* the client connections opened so far
    cpc,              \* createChildImpl: "idle", "prompting", "created"
    database,         \* the text validateInput was last called with
    validationMessage,\* what validateDatabaseName returned for it
    createdChild      \* the child createChildImpl returned

loadVars == <<pc, account, mongoClient, outcome, thrown, received,
              connectAttempts, listCalls, conns>>
childVars == <<cpc, database, validationMessage, createdChild>>
vars == <<pc, account, mongoClient, outcome, thrown, received,
          connectAttempts, listCalls, conns, cpc, database,
          validationMessage, createdChild>>

---------------------------------------------------------------------------
\* Bounds of the model.

\* concurrent invocations of loadMoreChildrenImpl
NumInvocations == 2
\* longest listing the server returns
MaxListLen == 3
\* longest name typed into the input box
MaxNameLen == 65

---------------------------------------------------------------------------
\* JavaScript values.

Undefined == [defined |-> FALSE, chars |-> <<>>]

Str(s) == [defined |-> TRUE, chars |-> s]

\* the truthiness of a value of type string | undefined
Truthy(v) == v.defined /\ Len(v.chars) > 0

\* the truthiness of a value of type boolean | undefined
TruthyFlag(b) == b = "true"

Flags == {"true", "false", "undefined"}

UpperCaseLetters == <<"A", "D", "M", "I", "N", "S", "L", "E">>

LowerCaseLetters == <<"a", "d", "m", "i", "n", "s", "l", "e">>

toLowerCaseChar(c) ==
    IF \E k \in 1..Len(UpperCaseLetters) : UpperCaseLetters[k] = c
    THEN LowerCaseLetters[CHOOSE k \in 1..Len(UpperCaseLetters) : UpperCaseLetters[k] = c]
    ELSE c

toLowerCase(s) == [k \in 1..Len(s) |-> toLowerCaseChar(s[k])]

\* String.prototype.includes, on text fragments
includes(message, fragment) == \E k \in 1..Len(message) : message[k] = fragment

---------------------------------------------------------------------------
\* The helpers loadMoreChildrenImpl calls.

\* getDatabaseNameFromConnectionString: the text between the first "/" after
\* the host and the "?" of the options, undefined when there is none.  A
\* connection string is <<scheme and host, "/", name characters, "?", options>>.
getDatabaseNameFromConnectionString(connectionString) ==
    LET n == Len(connectionString)
        slashes == {k \in 1..n : connectionString[k] = "/"}
    IN  IF slashes = {} THEN Undefined
        ELSE LET start == (CHOOSE k \in slashes : \A j \in slashes : k <= j) + 1
                 stops == {k \in start..n : connectionString[k] \in {"/", "?"}}
                 stop == IF stops = {} THEN n + 1
                         ELSE CHOOSE k \in stops : \A j \in stops : k <= j
             IN  IF stop = start THEN Undefined
                 ELSE Str(SubSeq(connectionString, start, stop - 1))

\* nonNullProp(source, 'name') throws when the property is null or undefined
nonNullPropThrows(value) == ~value.defined

nonNullPropMessage ==
    <<"Internal error: Expected value to be neither null nor undefined", ": ", "name">>

\* appendExtensionUserAgent(): the default client identifier
appendExtensionUserAgent == Str(<<"vscode-cosmosdb">>)

\* parseError(error).message
parseError(error) == [message |-> error.message]

\* Links.LocalConnectionDebuggingTips
LocalConnectionDebuggingTips == "https://aka.ms/AA5zah5"

MissingConnectionString == <<"Missing connection string">>

\* new MongoDatabaseTreeItem(this, databaseName, this.connectionString)
MongoDatabaseTreeItem(parent, databaseName) ==
    [databaseName |-> databaseName, connectionString |-> parent.connectionString]

\* line 62: the second argument of connectToMongoClient
appNameOf(acct) ==
    IF acct.databaseAccount.present THEN acct.databaseAccount.name
    ELSE appendExtensionUserAgent

\* mutant: the emulator is not told apart
useConnectionStringDatabaseOnEmulator(acct) ==
    Truthy(getDatabaseNameFromConnectionString(acct.connectionString))

\* line 65: only the database of the connection string is listed
useConnectionStringDatabase(acct) ==
    /\ Truthy(getDatabaseNameFromConnectionString(acct.connectionString))
    /\ ~TruthyFlag(acct.isEmulator)

\* mutant: the database of the connection string is marked empty
connectionStringDatabasesEmpty(databaseInConnectionString) ==
    <<[name |-> databaseInConnectionString, empty |-> "true"]>>

\* lines 67-70
connectionStringDatabases(databaseInConnectionString) ==
    <<[name |-> databaseInConnectionString, empty |-> "false"]>>

\* mutant: the name is compared without toLowerCase
keepDatabaseCaseSensitive(db) ==
    ~(/\ Truthy(db.name)
      /\ db.name.chars = <<"a", "d", "m", "i", "n">>
      /\ TruthyFlag(db.empty))

\* mutant: an entry without a name is filtered out
keepDatabaseNamedOnly(db) ==
    /\ Truthy(db.name)
    /\ ~(toLowerCase(db.name.chars) = <<"a", "d", "m", "i", "n">> /\ TruthyFlag(db.empty))

\* line 77: the 'admin' database is filtered out if it's empty
keepDatabase(db) ==
    ~(/\ Truthy(db.name)
      /\ toLowerCase(db.name.chars) = <<"a", "d", "m", "i", "n">>
      /\ TruthyFlag(db.empty))

filterDatabases(databases) == SelectSeq(databases, keepDatabase)

\* line 78 throws in nonNullProp for a kept entry without a name
mapThrows(databases) ==
    \E k \in 1..Len(filterDatabases(databases)) :
        nonNullPropThrows(filterDatabases(databases)[k].name)

\* lines 76-78: the children of the databases
mapChildren(acct, databases) ==
    LET kept == filterDatabases(databases)
    IN  [k \in 1..Len(kept) |-> MongoDatabaseTreeItem(acct, kept[k].name.chars)]

\* mutant: the original message is not kept
catchErrorGuidanceOnly(acct, error) ==
    LET message == parseError(error).message
    IN  IF TruthyFlag(acct.isEmulator) /\ includes(message, "ECONNREFUSED")
        THEN [error EXCEPT !.message =
                 <<"Unable to reach emulator. See ", LocalConnectionDebuggingTips,
                   " for debugging tips.\n">>]
        ELSE error

\* mutant: every error of an emulator is rewritten
catchErrorAnyMessage(acct, error) ==
    LET message == parseError(error).message
    IN  IF TruthyFlag(acct.isEmulator)
        THEN [error EXCEPT !.message =
                 <<"Unable to reach emulator. See ", LocalConnectionDebuggingTips,
                   " for debugging tips.\n">> \o message]
        ELSE error

\* lines 79-85: the error the catch block rethrows
catchError(acct, error) ==
    LET message == parseError(error).message
    IN  IF TruthyFlag(acct.isEmulator) /\ includes(message, "ECONNREFUSED")
        THEN [error EXCEPT !.message =
                 <<"Unable to reach emulator. See ", LocalConnectionDebuggingTips,
                   " for debugging tips.\n">> \o message]
        ELSE error

\* mutant: the client is kept in a place the invocations share, the last
\* one connected
finallyCloseShared(cs, client, i) ==
    IF client # 0
    THEN [cs EXCEPT ![Len(cs)].state = "closing",
                    ![Len(cs)].closedBy = Append(@, i)]
    ELSE cs

\* lines 86-92: close is called on the client, if there is one; not awaited
finallyClose(cs, client, i) ==
    IF client # 0
    THEN [cs EXCEPT ![client].state = "closing",
                    ![client].closedBy = Append(@, i)]
    ELSE cs

NoOutcome == [kind |-> "pending", children |-> <<>>, message |-> <<>>]

NoError == [source |-> "none", message |-> <<>>]

NoListing == [resolved |-> FALSE, databases |-> <<>>]

\* the promise of loadMoreChildrenImpl resolves with the children
returned(children) == [kind |-> "returned", children |-> children, message |-> <<>>]

\* the promise of loadMoreChildrenImpl rejects with the error
threw(error) == [kind |-> "threw", children |-> <<>>, message |-> error.message]

---------------------------------------------------------------------------
\* The inputs: the accounts, what the server lists, how the calls fail.

Host == "mongodb://localhost:10255"

ConnectionStrings ==
    { <<>>,
      <<Host>>,
      <<Host, "/", "A", "d", "m", "i", "n">>,
      <<Host, "/", "S", "a", "l", "e", "s", "?", "ssl=true">> }

DatabaseAccounts ==
    { [present |-> FALSE, name |-> Undefined],
      [present |-> TRUE, name |-> Str(<<"myaccount">>)],
      [present |-> TRUE, name |-> Undefined] }

Accounts ==
    [connectionString : ConnectionStrings, isEmulator : Flags,
     databaseAccount : DatabaseAccounts]

DatabaseNames ==
    { Undefined, Str(<<>>), Str(<<"a", "d", "m", "i", "n">>),
      Str(<<"A", "d", "m", "I", "N">>), Str(<<"S", "a", "l", "e", "s">>) }

\* IDatabaseInfo: every name with the flag true or false, and the flag
\* missing where the entry is named admin or has no name
DatabaseInfos ==
    [name : DatabaseNames, empty : {"true", "false"}] \cup
    { [name |-> Str(<<"a", "d", "m", "i", "n">>), empty |-> "undefined"],
      [name |-> Undefined, empty |-> "undefined"] }

SeqsUpTo(S, n) == UNION {[1..m -> S] : m \in 0..n}

Listings == SeqsUpTo(DatabaseInfos, MaxListLen)

ErrorMessages ==
    { <<"connect ", "ECONNREFUSED", " 127.0.0.1:10255">>,
      <<"ECONNREFUSED">>,
      <<"not authorized on admin to execute command { listDatabases: 1 }">> }

---------------------------------------------------------------------------
\* loadMoreChildrenImpl.

Invocations == DOMAIN pc

\* the function returns: the finally block runs, the promise resolves
Return(i, children, client, cs) ==
    /\ pc' = [pc EXCEPT ![i] = "done"]
    /\ outcome' = [outcome EXCEPT ![i] = returned(children)]
    /\ conns' = finallyClose(cs, client, i)
    /\ UNCHANGED thrown

\* an error is thrown in the try block: the catch block rethrows it, the
\* finally block runs, the promise rejects
Throw(i, acct, source, message, client, cs) ==
    /\ pc' = [pc EXCEPT ![i] = "done"]
    /\ thrown' = [thrown EXCEPT ![i] = [source |-> source, message |-> message]]
    /\ outcome' = [outcome EXCEPT ![i] = threw(catchError(acct, [message |-> message]))]
    /\ conns' = finallyClose(cs, client, i)

\* mutant: the connection string is not checked
CallUncheckedConnectionString(i) ==
    /\ pc[i] = "idle"
    /\ ~Truthy(Str(account[i].connectionString))
    /\ connectAttempts' = [connectAttempts EXCEPT ![i] = @ + 1]
    /\ pc' = [pc EXCEPT ![i] = "connecting"]
    /\ UNCHANGED <<account, mongoClient, outcome, thrown, received, listCalls,
                   conns, childVars>>

\* lines 57-59: the connection string is missing
CallMissingConnectionString(i) ==
    /\ pc[i] = "idle"
    /\ ~Truthy(Str(account[i].connectionString))
    /\ Throw(i, account[i], "config", MissingConnectionString, mongoClient[i], conns)
    /\ UNCHANGED <<account, mongoClient, received, connectAttempts, listCalls, childVars>>

\* line 62: nonNullProp(this.databaseAccount, 'name') throws
CallAccountNameMissing(i) ==
    /\ pc[i] = "idle"
    /\ Truthy(Str(account[i].connectionString))
    /\ account[i].databaseAccount.present
    /\ nonNullPropThrows(account[i].databaseAccount.name)
    /\ Throw(i, account[i], "accountName", nonNullPropMessage, mongoClient[i], conns)
    /\ UNCHANGED <<account, mongoClient, received, connectAttempts, listCalls, childVars>>

\* line 62: connectToMongoClient is called and awaited
CallConnect(i) ==
    /\ pc[i] = "idle"
    /\ Truthy(Str(account[i].connectionString))
    /\ ~(/\ account[i].databaseAccount.present
         /\ nonNullPropThrows(account[i].databaseAccount.name))
    /\ connectAttempts' = [connectAttempts EXCEPT ![i] = @ + 1]
    /\ pc' = [pc EXCEPT ![i] = "connecting"]
    /\ UNCHANGED <<account, mongoClient, outcome, thrown, received, listCalls,
                   conns, childVars>>

\* the connection connectToMongoClient resolves with
NewConnection(i) ==
    [state |-> "open", openedBy |-> i, appName |-> appNameOf(account[i]),
     listedBy |-> <<>>, closedBy |-> <<>>]

\* line 62 rejects
ConnectReject(i, message) ==
    /\ pc[i] = "connecting"
    /\ Throw(i, account[i], "connect", message, mongoClient[i], conns)
    /\ UNCHANGED <<account, mongoClient, received, connectAttempts, listCalls, childVars>>

\* lines 62-70, 76-78: connected, the database is in the connection string
ConnectResolveConnectionStringDatabase(i) ==
    /\ pc[i] = "connecting"
    /\ useConnectionStringDatabase(account[i])
    /\ LET client == Len(conns) + 1
           opened == Append(conns, NewConnection(i))
           databases == connectionStringDatabases(
                            getDatabaseNameFromConnectionString(account[i].connectionString))
       IN  /\ mongoClient' = [mongoClient EXCEPT ![i] = client]
           /\ IF mapThrows(databases)
              THEN Throw(i, account[i], "map", nonNullPropMessage, client, opened)
              ELSE Return(i, mapChildren(account[i], databases), client, opened)
    /\ UNCHANGED <<account, received, connectAttempts, listCalls, childVars>>

\* lines 62-65, 73: connected, listDatabases is called and awaited
ConnectResolveListDatabases(i) ==
    /\ pc[i] = "connecting"
    /\ ~useConnectionStringDatabase(account[i])
    /\ LET client == Len(conns) + 1
           opened == Append(conns, NewConnection(i))
       IN  /\ mongoClient' = [mongoClient EXCEPT ![i] = client]
           /\ conns' = [opened EXCEPT ![client].listedBy = Append(@, i)]
    /\ listCalls' = [listCalls EXCEPT ![i] = @ + 1]
    /\ pc' = [pc EXCEPT ![i] = "listing"]
    /\ UNCHANGED <<account, outcome, thrown, received, connectAttempts, childVars>>

\* line 73 rejects
ListReject(i, message) ==
    /\ pc[i] = "listing"
    /\ Throw(i, account[i], "list", message, mongoClient[i], conns)
    /\ UNCHANGED <<account, mongoClient, received, connectAttempts, listCalls, childVars>>

\* lines 73-78: the listing arrives, is filtered and mapped
ListResolve(i, databases) ==
    /\ pc[i] = "listing"
    /\ received' = [received EXCEPT ![i] = [resolved |-> TRUE, databases |-> databases]]
    /\ IF mapThrows(databases)
       THEN Throw(i, account[i], "map", nonNullPropMessage, mongoClient[i], conns)
       ELSE Return(i, mapChildren(account[i], databases), mongoClient[i], conns)
    /\ UNCHANGED <<account, mongoClient, connectAttempts, listCalls, childVars>>

\* mutant: close is awaited in the finally block, its failure is thrown
CloseSettleAwaited(c, ok) ==
    /\ c \in 1..Len(conns)
    /\ conns[c].state = "closing"
    /\ conns' = [conns EXCEPT ![c].state = IF ok THEN "closed" ELSE "closeFailed"]
    /\ outcome' = [outcome EXCEPT ![conns[c].openedBy] =
                      IF ok THEN @ ELSE threw([message |-> <<"close failed">>])]
    /\ UNCHANGED <<pc, account, mongoClient, thrown, received,
                   connectAttempts, listCalls, childVars>>

\* line 90: the promise of close settles, nobody waits for it
CloseSettle(c, ok) ==
    /\ c \in 1..Len(conns)
    /\ conns[c].state = "closing"
    /\ conns' = [conns EXCEPT ![c].state = IF ok THEN "closed" ELSE "closeFailed"]
    /\ UNCHANGED <<pc, account, mongoClient, outcome, thrown, received,
                   connectAttempts, listCalls, childVars>>

---------------------------------------------------------------------------
\* createChildImpl and validateDatabaseName.

min == 1

max == 63

LengthMessage ==
    <<"Database name must be between ", ToString(min), " and ", ToString(max),
      " characters.">>

\* the message quotes the characters in backquotes, written ' here
CharactersMessage == <<"Database name cannot contain these characters - '/\\. \"$#?'">>

\* line 130: /[/\\. "$#?]/.test(database)
restrictedCharacters == {"/", "\\", ".", " ", "\"", "$", "#", "?"}

hasRestrictedCharacter(str) == \E k \in 1..Len(str) : str[k] \in restrictedCharacters

\* mutant: the longest name is refused
validateDatabaseNameBelowMax(name) ==
    IF ~Truthy(name) \/ Len(name.chars) < min \/ Len(name.chars) >= max
    THEN Str(LengthMessage)
    ELSE IF hasRestrictedCharacter(name.chars)
         THEN Str(CharactersMessage)
         ELSE Undefined

validateDatabaseName(name) ==
    IF ~Truthy(name) \/ Len(name.chars) < min \/ Len(name.chars) > max
    THEN Str(LengthMessage)
    ELSE IF hasRestrictedCharacter(name.chars)
         THEN Str(CharactersMessage)
         ELSE Undefined

\* the characters typed: a letter, a digit and the restricted ones
TypedCharacters == {"S", "2"} \cup restrictedCharacters

\* a name of n letters, with the character c at position p when p # 0
TypedName(n, p, c) == [k \in 1..n |-> IF k = p THEN c ELSE "a"]

\* the texts typed: undefined, and every length up to MaxNameLen, all letters
\* or with one other character in the first or the last place
NameInputs ==
    {Undefined} \cup
    UNION { { Str(TypedName(n, p, c)) : p \in {0, 1, n}, c \in TypedCharacters } :
            n \in 0..MaxNameLen }

\* line 96: the input box opens, empty, and validates what it shows
ShowInputBox ==
    /\ cpc = "idle"
    /\ cpc' = "prompting"
    /\ database' = Str(<<>>)
    /\ validationMessage' = validateDatabaseName(Str(<<>>))
    /\ UNCHANGED <<createdChild, loadVars>>

\* lines 96-100: the text changes, validateInput is called with it
ValidateInput(name) ==
    /\ cpc = "prompting"
    /\ database' = name
    /\ validationMessage' = validateDatabaseName(name)
    /\ UNCHANGED <<cpc, createdChild, loadVars>>

\* lines 96-103: the input box accepts a text with no validation message
AcceptInput ==
    /\ cpc = "prompting"
    /\ database.defined
    /\ validationMessage = Undefined
    /\ cpc' = "created"
    /\ createdChild' = [defined |-> TRUE,
                        item |-> MongoDatabaseTreeItem(account[1], database.chars)]
    /\ UNCHANGED <<database, validationMessage, loadVars>>

\* line 96: the input box is dismissed, showInputBox throws
CancelInput ==
    /\ cpc = "prompting"
    /\ cpc' = "cancelled"
    /\ UNCHANGED <<database, validationMessage, createdChild, loadVars>>

---------------------------------------------------------------------------
\* The specifications.

\* the accounts and answers of the concurrent invocations
ConcAccounts ==
    { [connectionString |-> <<>>, isEmulator |-> "false",
       databaseAccount |-> [present |-> FALSE, name |-> Undefined]],
      [connectionString |-> <<Host>>, isEmulator |-> "undefined",
       databaseAccount |-> [present |-> FALSE, name |-> Undefined]],
      [connectionString |-> <<Host, "/", "A", "d", "m", "i", "n">>, isEmulator |-> "true",
       databaseAccount |-> [present |-> FALSE, name |-> Undefined]],
      [connectionString |-> <<Host, "/", "S", "a", "l", "e", "s", "?", "ssl=true">>,
       isEmulator |-> "false",
       databaseAccount |-> [present |-> TRUE, name |-> Str(<<"myaccount">>)]],
      [connectionString |-> <<Host>>, isEmulator |-> "true",
       databaseAccount |-> [present |-> TRUE, name |-> Undefined]] }

\* the account createChildImpl is called on
CreateAccounts ==
    { [connectionString |-> <<Host>>, isEmulator |-> "undefined",
       databaseAccount |-> [present |-> TRUE, name |-> Str(<<"myaccount">>)]] }

ConcListings ==
    { <<[name |-> Str(<<"a", "d", "m", "i", "n">>), empty |-> "true"],
        [name |-> Str(<<"S", "a", "l", "e", "s">>), empty |-> "false"]>>,
      <<[name |-> Undefined, empty |-> "undefined"]>> }

ConcErrorMessages == { <<"connect ", "ECONNREFUSED", " 127.0.0.1:10255">> }

InitLoad(N, accts) ==
    /\ pc = [i \in 1..N |-> "idle"]
    /\ account \in [1..N -> accts]
    /\ mongoClient = [i \in 1..N |-> 0]
    /\ outcome = [i \in 1..N |-> NoOutcome]
    /\ thrown = [i \in 1..N |-> NoError]
    /\ received = [i \in 1..N |-> NoListing]
    /\ connectAttempts = [i \in 1..N |-> 0]
    /\ listCalls = [i \in 1..N |-> 0]
    /\ conns = <<>>

InitChild ==
    /\ cpc = "idle"
    /\ database = Undefined
    /\ validationMessage = Undefined
    /\ createdChild = [defined |-> FALSE, item |-> <<>>]

NextLoad(messages, listings) ==
    \/ \E i \in Invocations : CallMissingConnectionString(i)
    \/ \E i \in Invocations : CallAccountNameMissing(i)
    \/ \E i \in Invocations : CallConnect(i)
    \/ \E i \in Invocations : pc[i] = "connecting" /\
          \E message \in messages : ConnectReject(i, message)
    \/ \E i \in Invocations : ConnectResolveConnectionStringDatabase(i)
    \/ \E i \in Invocations : ConnectResolveListDatabases(i)
    \/ \E i \in Invocations : pc[i] = "listing" /\
          \E message \in messages : ListReject(i, message)
    \/ \E i \in Invocations : pc[i] = "listing" /\
          \E databases \in listings : ListResolve(i, databases)
    \/ \E c \in 1..Len(conns), ok \in BOOLEAN : CloseSettle(c, ok)

\* one invocation of loadMoreChildrenImpl: any account, any listing
Init == InitLoad(1, Accounts) /\ InitChild

Next == NextLoad(ErrorMessages, Listings)

Spec == Init /\ [][Next]_vars

\* concurrent invocations of loadMoreChildrenImpl
InitConc == InitLoad(NumInvocations, ConcAccounts) /\ InitChild

NextConc == NextLoad(ConcErrorMessages, ConcListings)

SpecConc == InitConc /\ [][NextConc]_vars

\* createChildImpl on an account
InitCreate == InitLoad(1, CreateAccounts) /\ InitChild

NextCreate ==
    \/ ShowInputBox
    \/ \E name \in NameInputs : ValidateInput(name)
    \/ AcceptInput
    \/ CancelInput

SpecCreate == InitCreate /\ [][NextCreate]_vars

---------------------------------------------------------------------------
\* Properties.

\* "admin" in any letter case, spelled out
IsAdminName(name) ==
    /\ name.defined
    /\ Len(name.chars) = 5
    /\ name.chars[1] \in {"a", "A"}
    /\ name.chars[2] \in {"d", "D"}
    /\ name.chars[3] \in {"m", "M"}
    /\ name.chars[4] \in {"i", "I"}
    /\ name.chars[5] \in {"n", "N"}

\* the names of a listing, in order, without the empty admin entries
RECURSIVE ExpectedNames(_)
ExpectedNames(databases) ==
    IF databases = <<>> THEN <<>>
    ELSE IF IsAdminName(Head(databases).name) /\ Head(databases).empty = "true"
         THEN ExpectedNames(Tail(databases))
         ELSE <<Head(databases).name.chars>> \o ExpectedNames(Tail(databases))

ChildNames(children) == [k \in 1..Len(children) |-> children[k].databaseName]

IsSuffix(s, t) == Len(s) <= Len(t) /\ SubSeq(t, Len(t) - Len(s) + 1, Len(t)) = s

EncodedDatabase(i) == getDatabaseNameFromConnectionString(account[i].connectionString)

\* C1: with a database name D in the connection string of an account that is
\* not an emulator, listDatabases is never called and, once the connection is
\* open, the invocation has returned exactly the one child D.
C1_ConnectionStringDatabaseOnly ==
    \A i \in Invocations :
        (Truthy(EncodedDatabase(i)) /\ account[i].isEmulator # "true") =>
            /\ listCalls[i] = 0
            /\ pc[i] # "listing"
            /\ ~received[i].resolved
            /\ mongoClient[i] # 0 =>
                  /\ pc[i] = "done"
                  /\ outcome[i].kind = "returned"
                  /\ ChildNames(outcome[i].children) = <<EncodedDatabase(i).chars>>

C1_Witness ==
    \E i \in Invocations :
        /\ pc[i] = "done"
        /\ mongoClient[i] # 0
        /\ account[i].isEmulator = "undefined"
        /\ IsAdminName(EncodedDatabase(i))
        /\ Len(outcome[i].children) = 1

\* C2: on an emulator account whose connection is open, listDatabases has been
\* called once on it, and what is returned are the children of the server's
\* listing, not the name in the connection string.
C2_EmulatorAlwaysLists ==
    \A i \in Invocations :
        (account[i].isEmulator = "true" /\ mongoClient[i] # 0) =>
            /\ listCalls[i] = 1
            /\ conns[mongoClient[i]].listedBy = <<i>>
            /\ outcome[i].kind = "returned" =>
                  /\ received[i].resolved
                  /\ ChildNames(outcome[i].children) = ExpectedNames(received[i].databases)

C2_Witness ==
    \E i \in Invocations :
        /\ account[i].isEmulator = "true"
        /\ Truthy(EncodedDatabase(i))
        /\ outcome[i].kind = "returned"
        /\ listCalls[i] = 1
        /\ ChildNames(outcome[i].children) # <<EncodedDatabase(i).chars>>

\* C3: for a listing in which every entry has a name (a string that is not
\* empty), the children are the entries in the server's order, duplicates
\* kept, without the entries that are both named admin (in any letter case)
\* and empty.
C3_FilteredInServerOrder ==
    \A i \in Invocations :
        (/\ received[i].resolved
         /\ \A k \in 1..Len(received[i].databases) : Truthy(received[i].databases[k].name)) =>
            /\ outcome[i].kind = "returned"
            /\ ChildNames(outcome[i].children) = ExpectedNames(received[i].databases)

C3_Witness ==
    \E i \in Invocations :
        /\ received[i].databases =
              <<[name |-> Str(<<"a", "d", "m", "i", "n">>), empty |-> "true"],
                [name |-> Str(<<"a", "d", "m", "i", "n">>), empty |-> "false"],
                [name |-> Str(<<"S", "a", "l", "e", "s">>), empty |-> "false"]>>
        /\ ChildNames(outcome[i].children) =
              <<<<"a", "d", "m", "i", "n">>, <<"S", "a", "l", "e", "s">>>>

\* C5: a failure of connectToMongoClient is rethrown; on an emulator, with
\* ECONNREFUSED in the message, the message is the guidance with the link
\* followed by the original message; otherwise the message is unchanged.  No
\* error thrown in the try block ends as a result.
C5_ConnectErrorRethrown ==
    \A i \in Invocations :
        /\ thrown[i].source # "none" =>
              outcome[i].kind = "threw" /\ outcome[i].children = <<>>
        /\ thrown[i].source = "connect" =>
              IF /\ account[i].isEmulator = "true"
                 /\ \E k \in 1..Len(thrown[i].message) : thrown[i].message[k] = "ECONNREFUSED"
              THEN /\ \E k \in 1..Len(outcome[i].message) :
                         outcome[i].message[k] = LocalConnectionDebuggingTips
                   /\ IsSuffix(thrown[i].message, outcome[i].message)
                   /\ Len(outcome[i].message) > Len(thrown[i].message)
              ELSE outcome[i].message = thrown[i].message

C5_Witness ==
    \E i \in Invocations :
        /\ thrown[i].source = "connect"
        /\ account[i].isEmulator = "true"
        /\ thrown[i].message = <<"connect ", "ECONNREFUSED", " 127.0.0.1:10255">>
        /\ outcome[i].kind = "threw"
        /\ outcome[i].message # thrown[i].message

\* C6, as claimed: a failure of listDatabases is rethrown with exactly the
\* message it failed with, on every account.
C6_ListErrorVerbatim ==
    \A i \in Invocations :
        thrown[i].source = "list" =>
            outcome[i].kind = "threw" /\ outcome[i].message = thrown[i].message

\* C6, amended: a failure of listDatabases is rethrown with exactly the
\* message it failed with, except on an emulator account when the message
\* contains ECONNREFUSED: then the message is the guidance followed by it.
C6_ListErrorVerbatimUnlessEmulatorRefused ==
    \A i \in Invocations :
        thrown[i].source = "list" =>
            /\ outcome[i].kind = "threw"
            /\ IF /\ account[i].isEmulator = "true"
                  /\ \E k \in 1..Len(thrown[i].message) : thrown[i].message[k] = "ECONNREFUSED"
               THEN outcome[i].message =
                       <<"Unable to reach emulator. See ", "https://aka.ms/AA5zah5",
                         " for debugging tips.\n">> \o thrown[i].message
               ELSE outcome[i].message = thrown[i].message

C6_Witness ==
    \E i \in Invocations :
        /\ thrown[i].source = "list"
        /\ account[i].isEmulator = "true"
        /\ thrown[i].message = <<"ECONNREFUSED">>
        /\ outcome[i].kind = "threw"
        /\ Len(outcome[i].message) = 4

\* C7: with an empty connection string the invocation fails at once with
\* 'Missing connection string', on any account: nothing is connected, listed
\* or closed, and the message is not rewritten.
C7_MissingConnectionString ==
    \A i \in Invocations :
        (account[i].connectionString = <<>> /\ pc[i] # "idle") =>
            /\ pc[i] = "done"
            /\ outcome[i] = [kind |-> "threw", children |-> <<>>,
                             message |-> <<"Missing connection string">>]
            /\ connectAttempts[i] = 0
            /\ listCalls[i] = 0
            /\ mongoClient[i] = 0
            /\ \A c \in 1..Len(conns) :
                  /\ conns[c].openedBy # i
                  /\ \A k \in 1..Len(conns[c].closedBy) : conns[c].closedBy[k] # i

C7_Witness ==
    \E i \in Invocations :
        /\ account[i].connectionString = <<>>
        /\ account[i].isEmulator = "true"
        /\ pc[i] = "done"
        /\ outcome[i].kind = "threw"

\* the invocation that opened the connection c
Opener(c) == conns[c].openedBy

\* close has been called on c exactly when its opener has finished, once
CloseCalledOnceAfterFinish ==
    \A c \in 1..Len(conns) :
        /\ pc[Opener(c)] = "done" => conns[c].closedBy = <<Opener(c)>> /\ conns[c].state # "open"
        /\ pc[Opener(c)] # "done" => conns[c].closedBy = <<>> /\ conns[c].state = "open"

\* what a finished invocation returned or raised stays what it is
OutcomeIsFinal ==
    \A i \in Invocations :
        pc[i] = "done" => pc'[i] = "done" /\ outcome'[i] = outcome[i] /\ thrown'[i] = thrown[i]

\* C4: close is called exactly once on the connection an invocation opened,
\* when the invocation finishes, whether it returns or throws; and what it
\* returned or raised does not change when close later succeeds or fails.
C4_CloseNeverMasksOutcome ==
    [](CloseCalledOnceAfterFinish) /\ [][OutcomeIsFinal]_vars

C4_Witness ==
    \E c \in 1..Len(conns) :
        /\ conns[c].state = "closeFailed"
        /\ thrown[Opener(c)].source = "list"
        /\ \E d \in 1..Len(conns) :
              /\ conns[d].state = "closing"
              /\ outcome[Opener(d)].kind = "returned"
              /\ Len(outcome[Opener(d)].children) = 1

\* every invocation connects and lists at most once, and a connection is
\* listed on and closed by the invocation that opened it and by no other
OwnConnectionOnly ==
    /\ \A i \in Invocations :
          /\ connectAttempts[i] <= 1
          /\ listCalls[i] <= 1
          /\ Cardinality({c \in 1..Len(conns) : Opener(c) = i}) <= connectAttempts[i]
          /\ mongoClient[i] # 0 => Opener(mongoClient[i]) = i
    /\ \A c \in 1..Len(conns) :
          /\ conns[c].listedBy \in {<<>>, <<Opener(c)>>}
          /\ conns[c].closedBy \in {<<>>, <<Opener(c)>>}
          /\ Len(conns[c].listedBy) = listCalls[Opener(c)]
          /\ pc[Opener(c)] = "done" => conns[c].closedBy = <<Opener(c)>>

\* nothing is listed on a connection once close was called on it
NoListAfterClose ==
    \A c \in 1..Len(conns) :
        conns[c].closedBy # <<>> => conns'[c].listedBy = conns[c].listedBy

\* C9: under any interleaving of invocations, each connects at most once and
\* lists at most once, lists only on the connection it opened and only before
\* it closes it, closes only the connection it opened, and every opened
\* connection has close called on it once its invocation finishes.
C9_OneConnectionPerInvocation ==
    [](OwnConnectionOnly) /\ [][NoListAfterClose]_vars

C9_Witness ==
    /\ Len(conns) = 2
    /\ Opener(1) = 2
    /\ Opener(2) = 1
    /\ conns[1].listedBy = <<2>>
    /\ conns[2].closedBy = <<1>>
    /\ conns[1].closedBy = <<2>>
    /\ account[1] # account[2]

\* the text is valid: 1 to 63 characters, none of them restricted
ValidName(name) ==
    /\ name.defined
    /\ Len(name.chars) >= 1
    /\ Len(name.chars) <= 63
    /\ \A k \in 1..Len(name.chars) :
          name.chars[k] \notin {"/", "\\", ".", " ", "\"", "$", "#", "?"}

ValidationMatches ==
    cpc # "idle" =>
        validationMessage =
            IF ValidName(database) THEN Undefined
            ELSE IF ~database.defined \/ Len(database.chars) < 1 \/ Len(database.chars) > 63
                 THEN Str(<<"Database name must be between ", "1", " and ", "63",
                            " characters.">>)
                 ELSE Str(CharactersMessage)

\* a validation changes nothing but the text and its message
ValidationIsPure ==
    (database' # database \/ validationMessage' # validationMessage) =>
        /\ createdChild' = createdChild
        /\ loadVars' = loadVars
        /\ cpc' = "prompting"

\* C8: validateDatabaseName returns no message exactly for the names of 1 to
\* 63 characters with no restricted character; otherwise it returns a message,
\* the length message when the length is wrong (also with a restricted
\* character), the characters message otherwise; it changes no other state.
C8_ValidateDatabaseName ==
    [](ValidationMatches) /\ [][ValidationIsPure]_vars

C8_Witness ==
    /\ cpc = "prompting"
    /\ Len(database.chars) = 64
    /\ database.chars[64] = "/"
    /\ validationMessage = Str(LengthMessage)

HasNamelessEntry(databases) ==
    \E k \in 1..Len(databases) : ~databases[k].name.defined

CountEmptyNames(names) == Cardinality({k \in 1..Len(names) : names[k] = <<>>})

\* C10, as claimed: a listing with an entry whose name is missing or empty
\* makes the invocation raise an error and return no children, and close is
\* still called.
C10_NamelessEntryRaises ==
    \A i \in Invocations :
        (/\ received[i].resolved
         /\ \E k \in 1..Len(received[i].databases) : ~Truthy(received[i].databases[k].name)) =>
            /\ outcome[i].kind = "threw"
            /\ outcome[i].children = <<>>
            /\ conns[mongoClient[i]].closedBy = <<i>>

\* C10, amended: a listing with an entry whose name is missing (undefined)
\* makes the invocation raise the error of nonNullProp and return no children,
\* and close is still called; an entry whose name is the empty string is kept
\* by the filter and, with no name missing, becomes a child with that name.
C10_MissingNameRaises ==
    \A i \in Invocations :
        received[i].resolved =>
            /\ conns[mongoClient[i]].closedBy = <<i>>
            /\ HasNamelessEntry(received[i].databases) =>
                  /\ outcome[i].kind = "threw"
                  /\ outcome[i].children = <<>>
                  /\ thrown[i].source = "map"
                  /\ outcome[i].message = nonNullPropMessage
            /\ ~HasNamelessEntry(received[i].databases) =>
                  /\ outcome[i].kind = "returned"
                  /\ CountEmptyNames(ChildNames(outcome[i].children)) =
                        Cardinality({k \in 1..Len(received[i].databases) :
                                        received[i].databases[k].name = Str(<<>>)})

C10_Witness ==
    \E i \in Invocations :
        /\ received[i].resolved
        /\ Len(received[i].databases) = 3
        /\ received[i].databases[2] = [name |-> Undefined, empty |-> "undefined"]
        /\ received[i].databases[1].name = Str(<<>>)
        /\ outcome[i].kind = "threw"
        /\ conns[mongoClient[i]].state = "closed"

====
